---- MODULE Spec2Model ----
(***************************************************************************)
(* HL7 data-quality analysis (src/example.js, hl7DataQualityService).      *)
(*                                                                         *)
(* analyzeDataQuality is modelled as a state machine: the structural gate, *)
(* the parser call, the ten checks in battery order, and the aggregation.  *)
(* The validator and the parser are the external hl7-parser package: their *)
(* outcomes are inputs.  Field values are JavaScript values: undefined, a  *)
(* string, or a non-string object (a parser may hand back a component      *)
(* structure); regular expressions, includes() and Date parsing are        *)
(* computed on the characters of the string.                               *)
(***************************************************************************)
EXTENDS Integers, Sequences, FiniteSets, TLC

VARIABLES
    pc,            \* position inside analyzeDataQuality
    validation,    \* what validateHL7Message does with the raw message
    parsing,       \* what parseHL7Message does with the raw message
    parsed,        \* the parsed message the parser returns (when it returns)
    edits,         \* number of input edits applied to the parsed message
    checks,        \* results of the checks evaluated so far (the checks array)
    calls,         \* collaborators and checks invoked so far, in order
    issues,        \* the function's local issues array
    overallScore,  \* the function's local overallScore
    report         \* the returned report (NoReport until the function returns)

vars == <<pc, validation, parsing, parsed, edits, checks, calls, issues,
         overallScore, report>>

----------------------------------------------------------------------------
(* JavaScript values                                                       *)

Undefined == [kind |-> "undefined", str |-> ""]
Str(s) == [kind |-> "string", str |-> s]
\* a non-string, non-array object; str is its String() coercion
Obj == [kind |-> "object", str |-> "[object Object]"]

\* JavaScript truthiness of a field value
Truthy(v) == v.kind = "object" \/ (v.kind = "string" /\ v.str # "")

IsString(v) == v.kind = "string"

\* v === 'literal'
StrictEq(v, lit) == v.kind = "string" /\ v.str = lit

Char(s, i) == SubSeq(s, i, i)

Digits == {"0", "1", "2", "3", "4", "5", "6", "7", "8", "9"}

\* characters i..j of s are all \d
AllDigits(s, i, j) == \A k \in i..j : Char(s, k) \in Digits

\* String.prototype.includes
Includes(s, sub) ==
    \E i \in 1..(Len(s) - Len(sub) + 1) : SubSeq(s, i, i + Len(sub) - 1) = sub

\* Array.prototype.includes on an array of string literals (strict equality)
ArrayIncludes(arr, v) == v.kind = "string" /\ v.str \in arr

Min(a, b) == IF a < b THEN a ELSE b
Max(a, b) == IF a > b THEN a ELSE b

----------------------------------------------------------------------------
(* Regular expressions (RegExp.prototype.test on the string coercion)      *)

\* /^\d{14}(\.\d{1,4})?([\+\-]\d{4})?$/
dateTimeRegexTest(s) ==
    \E f \in 0..4, z \in {0, 5} :
        LET n == 14 + (IF f = 0 THEN 0 ELSE f + 1) IN
        /\ Len(s) = n + z
        /\ AllDigits(s, 1, 14)
        /\ f > 0 => (Char(s, 15) = "." /\ AllDigits(s, 16, n))
        /\ z = 5 => (Char(s, n + 1) \in {"+", "-"} /\ AllDigits(s, n + 2, n + 5))

\* /^\d{8}(\d{6})?(\d{1,4})?([\+\-]\d{4})?$/
\* the header's 14-digit pattern applied to every date
dateRegexAsDateTime(s) == dateTimeRegexTest(s)

dateRegexTest(s) ==
    \E t \in {0, 6}, f \in 0..4, z \in {0, 5} :
        LET n == 8 + t + f IN
        /\ Len(s) = n + z
        /\ AllDigits(s, 1, n)
        /\ z = 5 => (Char(s, n + 1) \in {"+", "-"} /\ AllDigits(s, n + 2, n + 5))

\* /^\d{3}-?\d{2}-?\d{4}$/
ssnRegexTest(s) ==
    \E a \in {0, 1}, b \in {0, 1} :
        /\ Len(s) = 9 + a + b
        /\ AllDigits(s, 1, 3)
        /\ a = 1 => Char(s, 4) = "-"
        /\ AllDigits(s, 4 + a, 5 + a)
        /\ b = 1 => Char(s, 6 + a) = "-"
        /\ AllDigits(s, 6 + a + b, 9 + a + b)

\* /[\d\-\(\)\s]+/  (not anchored: one such character anywhere)
phoneRegexTest(s) ==
    \E i \in 1..Len(s) : Char(s, i) \in Digits \cup {"-", "(", ")", " "}

----------------------------------------------------------------------------
(* new Date(value.substring(0, 8).replace(/(\d{4})(\d{2})(\d{2})/,         *)
(*                                        '$1-$2-$3'))                     *)
(* as a day number, or NaN.  An eight-digit prefix becomes the ISO form    *)
(* YYYY-MM-DD; YYYY and YYYY-MM are ISO forms too.  Everything else is     *)
(* left to the engine's own parser, and so is a day beyond the end of the  *)
(* month: engine "strict" answers NaN, engine "lenient" rolls the day over *)
(* and reads a leading four-digit year as the first day of that year.      *)

NaN == -1

Engines == {"strict", "lenient"}

DigitVal(c) ==
    CASE c = "0" -> 0 [] c = "1" -> 1 [] c = "2" -> 2 [] c = "3" -> 3
      [] c = "4" -> 4 [] c = "5" -> 5 [] c = "6" -> 6 [] c = "7" -> 7
      [] c = "8" -> 8 [] c = "9" -> 9

RECURSIVE NumVal(_, _, _)
\* the number written by characters i..j of s
NumVal(s, i, j) ==
    IF j < i THEN 0 ELSE NumVal(s, i, j - 1) * 10 + DigitVal(Char(s, j))

IsLeap(y) == (y % 4 = 0 /\ y % 100 # 0) \/ y % 400 = 0

DaysInMonth(y, m) ==
    IF m = 2 THEN (IF IsLeap(y) THEN 29 ELSE 28)
    ELSE IF m \in {4, 6, 9, 11} THEN 30 ELSE 31

RECURSIVE DaysBeforeMonth(_, _)
DaysBeforeMonth(y, m) ==
    IF m <= 1 THEN 0 ELSE DaysBeforeMonth(y, m - 1) + DaysInMonth(y, m - 1)

\* days from 0000-01-01 to y-m-d (d may run past the end of the month)
DayNumber(y, m, d) ==
    365 * y + ((y + 3) \div 4) - ((y + 99) \div 100) + ((y + 399) \div 400)
      + DaysBeforeMonth(y, m) + d

DateOf(s, engine) ==
    LET p == SubSeq(s, 1, Min(8, Len(s))) IN
    IF Len(p) = 8 /\ AllDigits(p, 1, 8)
    THEN LET y == NumVal(p, 1, 4)
             m == NumVal(p, 5, 6)
             d == NumVal(p, 7, 8)
         IN  IF m \notin 1..12 \/ d \notin 1..31 THEN NaN
             ELSE IF d <= DaysInMonth(y, m) \/ engine = "lenient"
                  THEN DayNumber(y, m, d)
                  ELSE NaN
    ELSE IF Len(p) = 4 /\ AllDigits(p, 1, 4)
    THEN DayNumber(NumVal(p, 1, 4), 1, 1)
    ELSE IF Len(p) = 7 /\ AllDigits(p, 1, 4) /\ Char(p, 5) = "-" /\ AllDigits(p, 6, 7)
    THEN (IF NumVal(p, 6, 7) \in 1..12
          THEN DayNumber(NumVal(p, 1, 4), NumVal(p, 6, 7), 1) ELSE NaN)
    ELSE IF engine = "lenient" /\ Len(p) >= 4 /\ AllDigits(p, 1, 4)
    THEN DayNumber(NumVal(p, 1, 4), 1, 1)
    ELSE NaN

\* a < b on Date objects (false when either is an Invalid Date)
DateBefore(a, b) == a # NaN /\ b # NaN /\ a < b

----------------------------------------------------------------------------
(* Parsed messages                                                         *)

QUALITY_CATEGORIES ==
    [COMPLETENESS |-> "Completeness", ACCURACY |-> "Accuracy",
     CONSISTENCY |-> "Consistency", COMPLIANCE |-> "Compliance",
     FORMATTING |-> "Formatting", BUSINESS_RULES |-> "Business Rules"]

SEVERITY ==
    [CRITICAL |-> "Critical", HIGH |-> "High", MEDIUM |-> "Medium",
     LOW |-> "Low", INFO |-> "Info"]

\* the field keys of segment.parsed that the checks read
FieldKeys ==
    {"field2", "field3", "field4", "field5", "field6", "field7", "field8",
     "field9", "field10", "field11", "field12", "field13", "field14",
     "field19", "field29", "field44", "field45"}

\* field.replace('field', '')
\* the field key left as it is
FieldNoUnstripped(field) == field

FieldNo(field) == SubSeq(field, 6, Len(field))

\* a segment's parsed object: the given fields, every other key undefined
Fields(given) ==
    [k \in FieldKeys |-> IF k \in DOMAIN given THEN given[k] ELSE Undefined]

Segment(type, given) == [segmentType |-> type, parsed |-> Fields(given)]

\* parsed.segments.find(s => s.segmentType === type)
\* the last segment of the type in place of the first
FindLast(segments, type) ==
    IF \E i \in 1..Len(segments) : segments[i].segmentType = type
    THEN segments[CHOOSE i \in 1..Len(segments) :
                    /\ segments[i].segmentType = type
                    /\ \A j \in (i + 1)..Len(segments) : segments[j].segmentType # type]
    ELSE Undefined

Find(segments, type) ==
    IF \E i \in 1..Len(segments) : segments[i].segmentType = type
    THEN segments[CHOOSE i \in 1..Len(segments) :
                    /\ segments[i].segmentType = type
                    /\ \A j \in 1..(i - 1) : segments[j].segmentType # type]
    ELSE Undefined

\* reading a property of seg.parsed raises a TypeError when parsed is undefined
NoParsed(seg) == seg # Undefined /\ seg.parsed = Undefined

Issue(category, severity, field, issue, recommendation) ==
    [category |-> category, severity |-> severity, field |-> field,
     issue |-> issue, recommendation |-> recommendation]

CheckResult(found, penalty) ==
    [issues |-> found, recommendations |-> <<>>, scorePenalty |-> penalty]

\* issues.push(...) and scorePenalty += n under a condition
When(cond, issue) == IF cond THEN <<issue>> ELSE <<>>
Pen(cond, n) == IF cond THEN n ELSE 0

RECURSIVE SumPenalties(_)
SumPenalties(results) ==
    IF results = <<>> THEN 0
    ELSE results[1].scorePenalty + SumPenalties(Tail(results))

RECURSIVE ConcatIssuesNewestFirst(_)
\* every check's issues put in front of those collected so far
ConcatIssuesNewestFirst(results) ==
    IF results = <<>> THEN <<>>
    ELSE ConcatIssuesNewestFirst(Tail(results)) \o results[1].issues

RECURSIVE ConcatIssues(_)
ConcatIssues(results) ==
    IF results = <<>> THEN <<>>
    ELSE results[1].issues \o ConcatIssues(Tail(results))

RECURSIVE ConcatRecommendations(_)
ConcatRecommendations(results) ==
    IF results = <<>> THEN <<>>
    ELSE results[1].recommendations \o ConcatRecommendations(Tail(results))

----------------------------------------------------------------------------
(* 1. checkMSHCompleteness                                                 *)

requiredFields ==
    << [field |-> "field3", name |-> "Sending Application"],
       [field |-> "field4", name |-> "Sending Facility"],
       [field |-> "field5", name |-> "Receiving Application"],
       [field |-> "field6", name |-> "Receiving Facility"],
       [field |-> "field9", name |-> "Message Type"],
       [field |-> "field10", name |-> "Message Control ID"],
       [field |-> "field12", name |-> "Version ID"] >>

\* !msh[field] || msh[field] === '' || msh[field] === 'Unknown'
\* the test without the placeholder
MissingOnly(v) == ~Truthy(v)

MissingOrPlaceholder(v) == ~Truthy(v) \/ StrictEq(v, "") \/ StrictEq(v, "Unknown")

RECURSIVE RequiredFieldIssues(_, _)
RequiredFieldIssues(msh, fields) ==
    IF fields = <<>> THEN <<>>
    ELSE LET f == fields[1] IN
         When(MissingOrPlaceholder(msh[f.field]),
              Issue(QUALITY_CATEGORIES.COMPLETENESS, SEVERITY.HIGH,
                    "MSH-" \o FieldNo(f.field), "Missing " \o f.name,
                    "Populate MSH-" \o FieldNo(f.field) \o " with appropriate value"))
           \o RequiredFieldIssues(msh, Tail(fields))

checkMSHCompletenessThrows(p) == NoParsed(Find(p.segments, "MSH"))

checkMSHCompleteness(p) ==
    LET mshSegment == Find(p.segments, "MSH") IN
    IF mshSegment = Undefined
    THEN CheckResult(
           << Issue(QUALITY_CATEGORIES.COMPLETENESS, SEVERITY.CRITICAL, "MSH",
                    "Missing MSH segment", "Add MSH segment as the first segment") >>,
           20)
    ELSE
    LET msh == mshSegment.parsed
        required == RequiredFieldIssues(msh, requiredFields)
        hasTime == Truthy(msh.field7) /\ ~StrictEq(msh.field7, "Unknown")
        badTime == hasTime /\ ~dateTimeRegexTest(msh.field7.str)
    IN  CheckResult(
          required
            \o When(badTime,
                    Issue(QUALITY_CATEGORIES.FORMATTING, SEVERITY.MEDIUM, "MSH-7",
                          "Invalid Date/Time format",
                          "Format date/time as YYYYMMDDHHMMSS (e.g., 20240101120000)"))
            \o When(~hasTime,
                    Issue(QUALITY_CATEGORIES.COMPLETENESS, SEVERITY.HIGH, "MSH-7",
                          "Missing Date/Time of Message",
                          "Add Date/Time of Message in MSH-7")),
          2 * Len(required) + Pen(badTime, 1) + Pen(~hasTime, 2))

----------------------------------------------------------------------------
(* 2. checkRequiredSegments                                                *)

\* (parsed.messageType || '').includes: a non-string object has no includes
checkRequiredSegmentsThrows(p) == p.messageType.kind = "object"

\* PID and PV1 required of every message type
checkRequiredSegmentsAnyType(p) ==
    LET segmentTypes == {p.segments[i].segmentType : i \in 1..Len(p.segments)}
        noPID == "PID" \notin segmentTypes
        noPV1 == "PV1" \notin segmentTypes
    IN  CheckResult(
          When(noPID,
               Issue(QUALITY_CATEGORIES.COMPLETENESS, SEVERITY.CRITICAL, "PID",
                     "Missing PID segment",
                     "Add PID segment with patient identification information"))
            \o When(noPV1,
                    Issue(QUALITY_CATEGORIES.COMPLETENESS, SEVERITY.HIGH, "PV1",
                          "Missing PV1 segment",
                          "Add PV1 segment with patient visit information")),
          Pen(noPID, 15) + Pen(noPV1, 10))

checkRequiredSegments(p) ==
    LET messageType == IF Truthy(p.messageType) THEN p.messageType.str ELSE ""
        segmentTypes == {p.segments[i].segmentType : i \in 1..Len(p.segments)}
        adt == Includes(messageType, "ADT")
        noPID == adt /\ "PID" \notin segmentTypes
        noPV1 == adt /\ "PV1" \notin segmentTypes
    IN  CheckResult(
          When(noPID,
               Issue(QUALITY_CATEGORIES.COMPLETENESS, SEVERITY.CRITICAL, "PID",
                     "Missing PID segment",
                     "Add PID segment with patient identification information"))
            \o When(noPV1,
                    Issue(QUALITY_CATEGORIES.COMPLETENESS, SEVERITY.HIGH, "PV1",
                          "Missing PV1 segment",
                          "Add PV1 segment with patient visit information")),
          Pen(noPID, 15) + Pen(noPV1, 10))

----------------------------------------------------------------------------
(* 3. checkPIDCompleteness                                                 *)

\* !v || v === ''
Empty(v) == ~Truthy(v) \/ StrictEq(v, "")

SexCodes == {"M", "F", "O", "U", "A"}

checkPIDCompletenessThrows(p) == NoParsed(Find(p.segments, "PID"))

\* the field rules of a PID segment whose fields are pid
PIDFieldIssues(pid) ==
    LET noName == Empty(pid.field5)
        noId == Empty(pid.field3)
        noDob == Empty(pid.field7)
        badDob == ~noDob /\ ~dateRegexTest(pid.field7.str)
        noSex == Empty(pid.field8)
        badSex == ~noSex /\ ~ArrayIncludes(SexCodes, pid.field8)
    IN  CheckResult(
          When(noName,
               Issue(QUALITY_CATEGORIES.COMPLETENESS, SEVERITY.HIGH, "PID-5",
                     "Missing Patient Name",
                     "Add patient name in PID-5 (format: Last^First^Middle^Suffix)"))
            \o When(noId,
                    Issue(QUALITY_CATEGORIES.COMPLETENESS, SEVERITY.HIGH, "PID-3",
                          "Missing Patient Identifier",
                          "Add patient identifier list in PID-3"))
            \o When(noDob,
                    Issue(QUALITY_CATEGORIES.COMPLETENESS, SEVERITY.MEDIUM, "PID-7",
                          "Missing Date of Birth",
                          "Add date of birth in PID-7 (format: YYYYMMDD)"))
            \o When(badDob,
                    Issue(QUALITY_CATEGORIES.FORMATTING, SEVERITY.MEDIUM, "PID-7",
                          "Invalid Date of Birth format",
                          "Format date of birth as YYYYMMDD (e.g., 19800115)"))
            \o When(noSex,
                    Issue(QUALITY_CATEGORIES.COMPLETENESS, SEVERITY.LOW, "PID-8",
                          "Missing Administrative Sex",
                          "Add administrative sex in PID-8 (M, F, O, U, or A)"))
            \o When(badSex,
                    Issue(QUALITY_CATEGORIES.ACCURACY, SEVERITY.MEDIUM, "PID-8",
                          "Invalid Administrative Sex value",
                          "Use valid codes: M (Male), F (Female), O (Other), U (Unknown), A (Ambiguous)")),
          Pen(noName, 5) + Pen(noId, 5) + Pen(noDob, 3) + Pen(badDob, 2)
            + Pen(noSex, 1) + Pen(badSex, 2))

\* the field rules applied to an absent segment as to an empty one
checkPIDCompletenessNoGuard(p) ==
    LET pidSegment == Find(p.segments, "PID") IN
    PIDFieldIssues(IF pidSegment = Undefined THEN Fields(<<>>) ELSE pidSegment.parsed)

checkPIDCompleteness(p) ==
    LET pidSegment == Find(p.segments, "PID") IN
    IF pidSegment = Undefined THEN CheckResult(<<>>, 0)
    ELSE PIDFieldIssues(pidSegment.parsed)

----------------------------------------------------------------------------
(* 4. checkDateFormats                                                     *)

\* the sweep without the two dates their own checks already judge
dateFieldsJudgedOnce ==
    << [segment |-> "PID", field |-> "field29", name |-> "Patient Death Date"],
       [segment |-> "PV1", field |-> "field44", name |-> "Admit Date/Time"],
       [segment |-> "PV1", field |-> "field45", name |-> "Discharge Date/Time"],
       [segment |-> "EVN", field |-> "field2", name |-> "Recorded Date/Time"] >>

dateFields ==
    << [segment |-> "MSH", field |-> "field7", name |-> "Date/Time of Message"],
       [segment |-> "PID", field |-> "field7", name |-> "Date of Birth"],
       [segment |-> "PID", field |-> "field29", name |-> "Patient Death Date"],
       [segment |-> "PV1", field |-> "field44", name |-> "Admit Date/Time"],
       [segment |-> "PV1", field |-> "field45", name |-> "Discharge Date/Time"],
       [segment |-> "EVN", field |-> "field2", name |-> "Recorded Date/Time"] >>

RECURSIVE DateFieldIssues(_, _)
DateFieldIssues(p, fields) ==
    IF fields = <<>> THEN <<>>
    ELSE LET f == fields[1]
             seg == Find(p.segments, f.segment)
             bad == /\ seg # Undefined
                    /\ Truthy(seg.parsed[f.field])
                    /\ ~dateRegexTest(seg.parsed[f.field].str)
         IN  When(bad,
                  Issue(QUALITY_CATEGORIES.FORMATTING, SEVERITY.MEDIUM,
                        f.segment \o "-" \o FieldNo(f.field),
                        "Invalid " \o f.name \o " format",
                        "Format dates as YYYYMMDD or YYYYMMDDHHMMSS"))
               \o DateFieldIssues(p, Tail(fields))

checkDateFormatsThrows(p) ==
    \E i \in 1..Len(dateFields) : NoParsed(Find(p.segments, dateFields[i].segment))

checkDateFormats(p) ==
    LET found == DateFieldIssues(p, dateFields) IN
    CheckResult(found, Len(found))

----------------------------------------------------------------------------
(* 5. checkIdentifierFormats                                               *)

checkIdentifierFormatsThrows(p) == NoParsed(Find(p.segments, "PID"))

checkIdentifierFormats(p) ==
    LET pidSegment == Find(p.segments, "PID")
        bad == /\ pidSegment # Undefined
               /\ Truthy(pidSegment.parsed.field19)
               /\ ~ssnRegexTest(pidSegment.parsed.field19.str)
    IN  CheckResult(
          When(bad,
               Issue(QUALITY_CATEGORIES.FORMATTING, SEVERITY.MEDIUM, "PID-19",
                     "Invalid SSN format", "Format SSN as XXX-XX-XXXX or XXXXXXXXX")),
          Pen(bad, 2))

----------------------------------------------------------------------------
(* 6. checkAddressFormats                                                  *)

checkAddressFormatsThrows(p) == NoParsed(Find(p.segments, "PID"))

checkAddressFormats(p) ==
    LET pidSegment == Find(p.segments, "PID")
        bad == /\ pidSegment # Undefined
               /\ Truthy(pidSegment.parsed.field11)
               /\ IsString(pidSegment.parsed.field11)
               /\ ~Includes(pidSegment.parsed.field11.str, "^")
    IN  CheckResult(
          When(bad,
               Issue(QUALITY_CATEGORIES.FORMATTING, SEVERITY.LOW, "PID-11",
                     "Address may be missing components",
                     "Format address with components: Street^City^State^Zip^Country")),
          Pen(bad, 1))

----------------------------------------------------------------------------
(* 7. checkPhoneFormats                                                    *)

phoneFields ==
    << [field |-> "field13", name |-> "Phone Number - Home"],
       [field |-> "field14", name |-> "Phone Number - Business"] >>

RECURSIVE PhoneFieldIssues(_, _)
PhoneFieldIssues(pid, fields) ==
    IF fields = <<>> THEN <<>>
    ELSE LET f == fields[1]
             bad == Truthy(pid[f.field]) /\ ~phoneRegexTest(pid[f.field].str)
         IN  When(bad,
                  Issue(QUALITY_CATEGORIES.FORMATTING, SEVERITY.LOW,
                        "PID-" \o FieldNo(f.field),
                        "Invalid " \o f.name \o " format",
                        "Format phone as [NNN][(999)]999-9999[X99999]"))
               \o PhoneFieldIssues(pid, Tail(fields))

checkPhoneFormatsThrows(p) == NoParsed(Find(p.segments, "PID"))

checkPhoneFormats(p) ==
    LET pidSegment == Find(p.segments, "PID")
        found == IF pidSegment = Undefined THEN <<>>
                 ELSE PhoneFieldIssues(pidSegment.parsed, phoneFields)
    IN  CheckResult(found, Len(found))

----------------------------------------------------------------------------
(* 8. checkDataConsistency                                                 *)

PatientClasses == {"I", "O", "E", "P", "R", "B", "N", "U"}

checkDataConsistencyThrows(p) ==
    Find(p.segments, "PID") # Undefined /\ NoParsed(Find(p.segments, "PV1"))

\* the patient class judged without asking for a PID segment
checkDataConsistencyNoPID(p) ==
    LET pv1Segment == Find(p.segments, "PV1")
        bad == /\ pv1Segment # Undefined
               /\ Truthy(pv1Segment.parsed.field2)
               /\ ~ArrayIncludes(PatientClasses, pv1Segment.parsed.field2)
    IN  CheckResult(
          When(bad,
               Issue(QUALITY_CATEGORIES.CONSISTENCY, SEVERITY.MEDIUM, "PV1-2",
                     "Invalid Patient Class",
                     "Use valid codes: I (Inpatient), O (Outpatient), E (Emergency), P (Preadmit), R (Recurring), B (Obstetrics), N (Newborn), U (Unknown)")),
          Pen(bad, 2))

\* the patient class judged also when PV1-2 is absent
checkDataConsistencyAbsentClass(p) ==
    LET pidSegment == Find(p.segments, "PID")
        pv1Segment == Find(p.segments, "PV1")
        bad == /\ pidSegment # Undefined
               /\ pv1Segment # Undefined
               /\ ~ArrayIncludes(PatientClasses, pv1Segment.parsed.field2)
    IN  CheckResult(
          When(bad,
               Issue(QUALITY_CATEGORIES.CONSISTENCY, SEVERITY.MEDIUM, "PV1-2",
                     "Invalid Patient Class",
                     "Use valid codes: I (Inpatient), O (Outpatient), E (Emergency), P (Preadmit), R (Recurring), B (Obstetrics), N (Newborn), U (Unknown)")),
          Pen(bad, 2))

checkDataConsistency(p) ==
    LET pidSegment == Find(p.segments, "PID")
        pv1Segment == Find(p.segments, "PV1")
        bad == /\ pidSegment # Undefined
               /\ pv1Segment # Undefined
               /\ Truthy(pv1Segment.parsed.field2)
               /\ ~ArrayIncludes(PatientClasses, pv1Segment.parsed.field2)
    IN  CheckResult(
          When(bad,
               Issue(QUALITY_CATEGORIES.CONSISTENCY, SEVERITY.MEDIUM, "PV1-2",
                     "Invalid Patient Class",
                     "Use valid codes: I (Inpatient), O (Outpatient), E (Emergency), P (Preadmit), R (Recurring), B (Obstetrics), N (Newborn), U (Unknown)")),
          Pen(bad, 2))

----------------------------------------------------------------------------
(* 9. checkBusinessRules                                                   *)

\* both values present: substring is called on each, and only a string has it
BothPresent(a, b) == Truthy(a) /\ Truthy(b)
SubstringThrows(a, b) == BothPresent(a, b) /\ (~IsString(a) \/ ~IsString(b))

\* later < earlier on the two parsed dates
\* the comparison with <= in place of <
OutOfOrderOrSameDay(earlier, later, engine) ==
    /\ BothPresent(earlier, later)
    /\ LET l == DateOf(later.str, engine)
           e == DateOf(earlier.str, engine)
       IN  l # NaN /\ e # NaN /\ l <= e

OutOfOrder(earlier, later, engine) ==
    /\ BothPresent(earlier, later)
    /\ DateBefore(DateOf(later.str, engine), DateOf(earlier.str, engine))

checkBusinessRulesThrows(p) ==
    LET pv1Segment == Find(p.segments, "PV1")
        pidSegment == Find(p.segments, "PID")
    IN  \/ NoParsed(pv1Segment)
        \/ /\ pv1Segment # Undefined
           /\ SubstringThrows(pv1Segment.parsed.field44, pv1Segment.parsed.field45)
        \/ NoParsed(pidSegment)
        \/ /\ pidSegment # Undefined
           /\ SubstringThrows(pidSegment.parsed.field7, pidSegment.parsed.field29)

checkBusinessRules(p, engine) ==
    LET pv1Segment == Find(p.segments, "PV1")
        pidSegment == Find(p.segments, "PID")
        early == /\ pv1Segment # Undefined
                 /\ OutOfOrder(pv1Segment.parsed.field44,
                               pv1Segment.parsed.field45, engine)
        dead == /\ pidSegment # Undefined
                /\ OutOfOrder(pidSegment.parsed.field7,
                              pidSegment.parsed.field29, engine)
    IN  CheckResult(
          When(early,
               Issue(QUALITY_CATEGORIES.BUSINESS_RULES, SEVERITY.HIGH, "PV1-44/45",
                     "Discharge date before admit date",
                     "Verify and correct admit and discharge dates"))
            \o When(dead,
                    Issue(QUALITY_CATEGORIES.BUSINESS_RULES, SEVERITY.HIGH, "PID-7/29",
                          "Death date before birth date",
                          "Verify and correct birth and death dates")),
          Pen(early, 5) + Pen(dead, 5))

----------------------------------------------------------------------------
(* 10. checkVersionCompliance                                              *)

validVersions ==
    {"2.1", "2.2", "2.3", "2.3.1", "2.4", "2.5", "2.5.1", "2.6", "2.7", "2.8",
     "2.8.1", "2.8.2"}

checkVersionComplianceThrows(p) == NoParsed(Find(p.segments, "MSH"))

\* the whitelist as it stood before version 2.5
checkVersionComplianceUpTo24(p) ==
    LET mshSegment == Find(p.segments, "MSH")
        bad == /\ mshSegment # Undefined
               /\ Truthy(mshSegment.parsed.field12)
               /\ ~ArrayIncludes({"2.1", "2.2", "2.3", "2.3.1", "2.4"},
                                 mshSegment.parsed.field12)
    IN  CheckResult(
          When(bad,
               Issue(QUALITY_CATEGORIES.COMPLIANCE, SEVERITY.MEDIUM, "MSH-12",
                     "Unusual HL7 version",
                     "Verify version ID matches actual message structure (common versions: 2.3, 2.4, 2.5, 2.8)")),
          Pen(bad, 2))

checkVersionCompliance(p) ==
    LET mshSegment == Find(p.segments, "MSH")
        bad == /\ mshSegment # Undefined
               /\ Truthy(mshSegment.parsed.field12)
               /\ ~ArrayIncludes(validVersions, mshSegment.parsed.field12)
    IN  CheckResult(
          When(bad,
               Issue(QUALITY_CATEGORIES.COMPLIANCE, SEVERITY.MEDIUM, "MSH-12",
                     "Unusual HL7 version",
                     "Verify version ID matches actual message structure (common versions: 2.3, 2.4, 2.5, 2.8)")),
          Pen(bad, 2))

----------------------------------------------------------------------------
(* analyzeDataQuality: the report shapes and the aggregation               *)

NoReport == [returned |-> FALSE]

StructureIssue ==
    Issue(QUALITY_CATEGORIES.FORMATTING, SEVERITY.CRITICAL, "Message Structure",
          "Invalid HL7 message format",
          "Ensure message starts with MSH segment and contains proper delimiters")

ParsingIssue ==
    Issue(QUALITY_CATEGORIES.FORMATTING, SEVERITY.CRITICAL, "Message Parsing",
          "Failed to parse message",
          "Review message format and ensure it follows HL7 v2.x standards")

\* the penalty of the structural gate
StructurePenalty == 30

\* the score every analysis starts from
StartScore == 100

\* the return inside if (!validation.isValid)
InvalidReport(iss, score) ==
    [returned |-> TRUE,
     overallScore |-> Max(0, score - StructurePenalty),
     issues |-> iss \o <<StructureIssue>>,
     recommendations |-> <<>>,
     isValid |-> FALSE,
     messageType |-> Undefined,
     totalSegments |-> Undefined]

\* slip: the catch block reports a failure score of -1
CatchReportSentinel(iss) ==
    [returned |-> TRUE,
     overallScore |-> -1,
     issues |-> iss \o <<ParsingIssue>>,
     recommendations |-> <<"Fix parsing errors before proceeding with quality analysis">>,
     isValid |-> FALSE,
     messageType |-> Undefined,
     totalSegments |-> Undefined]

\* the catch block: the issue is pushed onto whatever issues holds by then
CatchReport(iss) ==
    [returned |-> TRUE,
     overallScore |-> 0,
     issues |-> iss \o <<ParsingIssue>>,
     recommendations |-> <<"Fix parsing errors before proceeding with quality analysis">>,
     isValid |-> FALSE,
     messageType |-> Undefined,
     totalSegments |-> Undefined]

\* Math.max(0, Math.min(100, overallScore))
\* a floor of fifty in place of zero
ClampAtFifty(score) == Max(50, Min(100, score))

Clamp(score) == Max(0, Min(100, score))

RECURSIVE Dedupe(_)
\* [...new Set(recommendations)]: first occurrences, in order
Dedupe(seq) ==
    IF seq = <<>> THEN <<>>
    ELSE LET front == Dedupe(SubSeq(seq, 1, Len(seq) - 1))
             last == seq[Len(seq)]
         IN  IF \E i \in 1..Len(front) : front[i] = last
             THEN front ELSE Append(front, last)

\* slip: each check's issues are pushed as soon as the check returns
IssuesPushedWhileChecking(iss, result) == iss \o result.issues

\* while the checks array is being built, a finished check's result is only
\* stored in the array: the function's issues list is not touched
IssuesWhileChecking(iss, result) == iss

RECURSIVE IssueRecommendations(_)
IssueRecommendations(iss) ==
    IF iss = <<>> THEN <<>>
    ELSE <<iss[1].recommendation>> \o IssueRecommendations(Tail(iss))

\* slip: the valid flag is derived from the findings
ValidReportStrict(p, iss, score, results) ==
    [returned |-> TRUE,
     overallScore |-> Clamp(score - SumPenalties(results)),
     issues |-> iss \o ConcatIssues(results),
     recommendations |-> Dedupe(ConcatRecommendations(results)),
     isValid |-> (\A i \in 1..Len(ConcatIssues(results)) :
                    ConcatIssues(results)[i].severity # SEVERITY.CRITICAL),
     messageType |-> p.messageType,
     totalSegments |-> p.totalSegments]

\* slip: recommendations rebuilt from the issues, the Set forgotten
ValidReportAllRecommendations(p, iss, score, results) ==
    [returned |-> TRUE,
     overallScore |-> Clamp(score - SumPenalties(results)),
     issues |-> iss \o ConcatIssues(results),
     recommendations |-> IssueRecommendations(iss \o ConcatIssues(results)),
     isValid |-> TRUE,
     messageType |-> p.messageType,
     totalSegments |-> p.totalSegments]

\* checks.forEach(...), the clamp and the return of the valid path
ValidReport(p, iss, score, results) ==
    [returned |-> TRUE,
     overallScore |-> Clamp(score - SumPenalties(results)),
     issues |-> iss \o ConcatIssues(results),
     recommendations |-> Dedupe(ConcatRecommendations(results)),
     isValid |-> TRUE,
     messageType |-> p.messageType,
     totalSegments |-> p.totalSegments]

----------------------------------------------------------------------------
(* Inputs: the messages of the example harness, as the parser hands them   *)
(* over (HL7 field numbering; an empty field is the empty string)          *)

Message(messageType, segments) ==
    [messageType |-> messageType, totalSegments |-> Len(segments),
     segments |-> segments]

\* getSampleADTMessage()
SampleADTMessage ==
    Message(Str("ADT^A01^ADT_A01"),
      << Segment("MSH",
           [field2 |-> Str("^~\\&"), field3 |-> Str("SendingApp"),
            field4 |-> Str("SendingFacility"), field5 |-> Str("ReceivingApp"),
            field6 |-> Str("ReceivingFacility"), field7 |-> Str("20240101120000"),
            field8 |-> Str(""), field9 |-> Str("ADT^A01^ADT_A01"),
            field10 |-> Str("12345"), field11 |-> Str("P"), field12 |-> Str("2.5")]),
         Segment("EVN",
           [field2 |-> Str("20240101120000"), field3 |-> Str(""),
            field4 |-> Str(""), field5 |-> Str("SendingUserID")]),
         Segment("PID",
           [field2 |-> Str(""), field3 |-> Str("MRN123456789^^^HOSPITAL^MR"),
            field4 |-> Str(""), field5 |-> Str("DOE^JOHN^MIDDLE^JR^^L"),
            field6 |-> Str(""), field7 |-> Str("19800115"), field8 |-> Str("M"),
            field9 |-> Str(""), field10 |-> Str(""),
            field11 |-> Str("123 MAIN ST^^CITY^ST^12345^USA"), field12 |-> Str(""),
            field13 |-> Str("555-123-4567"), field14 |-> Str("")]),
         Segment("NK1",
           [field2 |-> Str("SMITH^JANE^M^"), field3 |-> Str(""),
            field4 |-> Str("WIFE"), field5 |-> Str("456 SECOND ST^^CITY^ST^67890^USA"),
            field6 |-> Str("555-987-6543"), field7 |-> Str("555-111-2222"),
            field8 |-> Str(""), field9 |-> Str(""), field10 |-> Str("20200101")]),
         Segment("PV1",
           [field2 |-> Str("I"), field3 |-> Str("ICU^101^A"), field4 |-> Str(""),
            field5 |-> Str(""), field6 |-> Str("123456^DOCTOR^JOHN^MD^^MD"),
            field7 |-> Str(""), field8 |-> Str(""), field9 |-> Str("SUR"),
            field10 |-> Str(""), field11 |-> Str(""), field12 |-> Str(""),
            field13 |-> Str(""), field14 |-> Str("123456789"),
            field19 |-> Str("20240101100000")]),
         Segment("OBX",
           [field2 |-> Str("NM"), field3 |-> Str("HR^Heart Rate^LN"),
            field4 |-> Str(""), field5 |-> Str("72"),
            field6 |-> Str("/min^beats per minute^UCUM"), field7 |-> Str("N"),
            field8 |-> Str(""), field9 |-> Str(""), field10 |-> Str("F"),
            field11 |-> Str(""), field12 |-> Str(""),
            field13 |-> Str("20240101120000")]) >>)

\* Example 2: problematicMessage
ProblematicMessage ==
    Message(Str("ADT^A01"),
      << Segment("MSH",
           [field2 |-> Str("^~\\&"), field3 |-> Str("SendingApp"),
            field4 |-> Str(""), field5 |-> Str("ReceivingApp"),
            field6 |-> Str(""), field7 |-> Str("20240101"), field8 |-> Str(""),
            field9 |-> Str("ADT^A01"), field10 |-> Str("12345"),
            field11 |-> Str("P"), field12 |-> Str("2.5")]),
         Segment("PID",
           [field2 |-> Str(""), field3 |-> Str(""), field4 |-> Str(""),
            field5 |-> Str(""), field6 |-> Str("19800115"), field7 |-> Str("X"),
            field8 |-> Str(""), field9 |-> Str(""), field10 |-> Str("123 MAIN ST"),
            field11 |-> Str("CITY"), field12 |-> Str("ST"), field13 |-> Str("12345"),
            field14 |-> Str("USA")]) >>)

\* Example 4: 'Invalid Format'
InvalidFormatMessage ==
    Message(Str("ADT^A01"),
      << Segment("MSH",
           [field2 |-> Str("^~\\&"), field3 |-> Str("App"),
            field4 |-> Str("Facility"), field5 |-> Str(""), field6 |-> Str(""),
            field7 |-> Str("2024-01-01"), field8 |-> Str(""),
            field9 |-> Str("ADT^A01"), field10 |-> Str("123"),
            field11 |-> Str("P"), field12 |-> Str("2.5")]),
         Segment("PID",
           [field2 |-> Str(""), field3 |-> Str("MRN123"), field4 |-> Str(""),
            field5 |-> Str("DOE^JOHN"), field6 |-> Str(""),
            field7 |-> Str("1980/01/15"), field8 |-> Str("M")]) >>)

BaseMessages == {SampleADTMessage, ProblematicMessage, InvalidFormatMessage}

\* the values an input edit may give a field the checks read
EditValues(segmentType, field) ==
    CASE segmentType = "MSH" /\ field \in {"field4", "field5", "field6", "field9", "field10"}
           -> {Undefined}
      [] segmentType = "MSH" /\ field = "field3"
           -> {Undefined, Str("Unknown")}
      [] segmentType = "MSH" /\ field = "field7"
           -> {Undefined, Str("Unknown"), Str("2024-01-01"), Obj}
      [] segmentType = "MSH" /\ field = "field12"
           -> {Undefined, Str("Unknown"), Str("3.0")}
      [] segmentType = "PID" /\ field \in {"field3", "field5"}
           -> {Undefined}
      [] segmentType = "PID" /\ field = "field7"
           -> {Undefined, Str("1980/01/15"), Str("19800115")}
      [] segmentType = "PID" /\ field = "field8"
           -> {Undefined, Str("X")}
      [] segmentType = "PID" /\ field = "field11"
           -> {Str("123 MAIN ST"), Obj}
      [] segmentType = "PID" /\ field \in {"field13", "field14"}
           -> {Str("CALL")}
      [] segmentType = "PID" /\ field = "field19"
           -> {Str("123-45-6789"), Str("SSN123456789")}
      [] segmentType = "PID" /\ field = "field29"
           -> {Str("19700101"), Str("20240105"), Obj}
      [] segmentType = "PV1" /\ field = "field2"
           -> {Undefined, Str("X")}
      [] segmentType = "PV1" /\ field = "field44"
           -> {Str("20240110"), Str("20240110235959"), Str("2024"), Obj}
      [] segmentType = "PV1" /\ field = "field45"
           -> {Str("20240105"), Str("20240110"), Str("20231305"), Str("2023"), Obj}
      [] segmentType = "EVN" /\ field = "field2"
           -> {Str("2024-01-01")}
      [] OTHER -> {}

EditMessageTypes == {Undefined, Str("ORU^R01"), Obj}

\* the number of edits applied to a harness message
MaxEdits == 2

ValidationOutcomes == {"valid", "invalid", "throws"}
ParsingOutcomes == {"returns", "throws"}

----------------------------------------------------------------------------
(* The state machine                                                       *)

Init ==
    /\ pc = "input"
    /\ validation \in ValidationOutcomes
    /\ parsing \in ParsingOutcomes
    /\ parsed \in BaseMessages
    /\ edits = 0
    /\ checks = <<>>
    /\ calls = <<>>
    /\ issues = <<>>
    /\ overallScore = StartScore
    /\ report = NoReport

\* an edit matters only to a message that reaches the checks
CanEdit ==
    /\ pc = "input"
    /\ validation = "valid"
    /\ parsing = "returns"
    /\ edits < MaxEdits

Edited(p) ==
    /\ parsed' = p
    /\ edits' = edits + 1
    /\ UNCHANGED <<pc, validation, parsing, checks, calls, issues, overallScore, report>>

EditField ==
    /\ CanEdit
    /\ \E i \in 1..Len(parsed.segments), field \in FieldKeys :
         /\ parsed.segments[i].parsed # Undefined
         /\ \E v \in EditValues(parsed.segments[i].segmentType, field) :
              /\ parsed.segments[i].parsed[field] # v
              /\ Edited([parsed EXCEPT !.segments[i].parsed[field] = v])

EditMessageType ==
    /\ CanEdit
    /\ \E v \in EditMessageTypes :
         /\ parsed.messageType # v
         /\ Edited([parsed EXCEPT !.messageType = v])

RemoveAt(seq, i) == SubSeq(seq, 1, i - 1) \o SubSeq(seq, i + 1, Len(seq))

RemoveSegment ==
    /\ CanEdit
    /\ \E i \in 1..Len(parsed.segments) :
         /\ parsed.segments[i].segmentType \in {"MSH", "PID", "PV1", "EVN"}
         /\ Edited([parsed EXCEPT !.segments = RemoveAt(@, i),
                                  !.totalSegments = @ - 1])

InsertAt(seq, k, x) == SubSeq(seq, 1, k - 1) \o <<x>> \o SubSeq(seq, k, Len(seq))

\* further segments of a type: one with no field, one with X in every field
RepeatedSegments(type) ==
    {Segment(type, <<>>), Segment(type, [f \in FieldKeys |-> Str("X")])}

\* a further segment of a type the message has: the one with X in every field
\* right after the first of the type, the one with no field at the end; an
\* added segment counts as two edits
RepeatSegment ==
    /\ pc = "input"
    /\ validation = "valid"
    /\ parsing = "returns"
    /\ edits + 2 <= MaxEdits
    /\ \E i \in 1..Len(parsed.segments) :
         LET type == parsed.segments[i].segmentType IN
         /\ type \in {"MSH", "PID", "PV1", "EVN"}
         /\ \A j \in 1..(i - 1) : parsed.segments[j].segmentType # type
         /\ \E seg \in RepeatedSegments(type) :
              LET k == IF seg = Segment(type, <<>>)
                       THEN Len(parsed.segments) + 1 ELSE i + 1
              IN  /\ parsed' = [parsed EXCEPT !.segments = InsertAt(@, k, seg),
                                              !.totalSegments = @ + 1]
                  /\ edits' = edits + 2
    /\ UNCHANGED <<pc, validation, parsing, checks, calls, issues, overallScore, report>>

\* a segment the parser left without its parsed object
ClearParsed ==
    /\ CanEdit
    /\ \E i \in 1..Len(parsed.segments) :
         /\ parsed.segments[i].segmentType \in {"MSH", "PID", "PV1"}
         /\ parsed.segments[i].parsed # Undefined
         /\ Edited([parsed EXCEPT !.segments[i].parsed = Undefined])

Return(r) ==
    /\ pc' = "done"
    /\ report' = r

\* slip: the invalid branch records the issue but does not return
ValidateStructureFallsThrough ==
    /\ pc = "input"
    /\ calls' = Append(calls, "validateHL7Message")
    /\ CASE validation = "throws" ->
              /\ Return(CatchReport(issues))
              /\ UNCHANGED <<issues, overallScore>>
         [] validation = "invalid" ->
              /\ pc' = "parse"
              /\ issues' = issues \o <<StructureIssue>>
              /\ overallScore' = overallScore - StructurePenalty
              /\ UNCHANGED report
         [] OTHER ->
              /\ pc' = "parse"
              /\ UNCHANGED <<issues, overallScore, report>>
    /\ UNCHANGED <<validation, parsing, parsed, edits, checks>>

\* const validation = validateHL7Message(hl7Message); if (!validation.isValid) ...
ValidateStructure ==
    /\ pc = "input"
    /\ calls' = Append(calls, "validateHL7Message")
    /\ CASE validation = "throws" ->
              /\ Return(CatchReport(issues))
              /\ UNCHANGED <<issues, overallScore>>
         [] validation = "invalid" ->
              /\ Return(InvalidReport(issues, overallScore))
              /\ issues' = issues \o <<StructureIssue>>
              /\ overallScore' = overallScore - StructurePenalty
         [] OTHER ->
              /\ pc' = "parse"
              /\ UNCHANGED <<issues, overallScore, report>>
    /\ UNCHANGED <<validation, parsing, parsed, edits, checks>>

\* const parsed = parseHL7Message(hl7Message)
Parse ==
    /\ pc = "parse"
    /\ calls' = Append(calls, "parseHL7Message")
    /\ IF parsing = "throws"
       THEN Return(CatchReport(issues))
       ELSE pc' = "checks" /\ UNCHANGED report
    /\ UNCHANGED <<validation, parsing, parsed, edits, checks, issues, overallScore>>

\* element n of the checks array literal: the check runs; a fault goes to catch
RunCheck(n, name, throws, result) ==
    /\ pc = "checks"
    /\ Len(checks) = n - 1
    /\ calls' = Append(calls, name)
    /\ IF throws
       THEN /\ Return(CatchReport(issues))
            /\ UNCHANGED <<checks, issues>>
       ELSE /\ checks' = Append(checks, result)
            /\ issues' = IssuesWhileChecking(issues, result)
            /\ UNCHANGED <<pc, report>>
    /\ UNCHANGED <<validation, parsing, parsed, edits, overallScore>>

CheckMSHCompleteness ==
    RunCheck(1, "checkMSHCompleteness", checkMSHCompletenessThrows(parsed),
             checkMSHCompleteness(parsed))

CheckRequiredSegments ==
    RunCheck(2, "checkRequiredSegments", checkRequiredSegmentsThrows(parsed),
             checkRequiredSegments(parsed))

CheckPIDCompleteness ==
    RunCheck(3, "checkPIDCompleteness", checkPIDCompletenessThrows(parsed),
             checkPIDCompleteness(parsed))

CheckDateFormats ==
    RunCheck(4, "checkDateFormats", checkDateFormatsThrows(parsed),
             checkDateFormats(parsed))

CheckIdentifierFormats ==
    RunCheck(5, "checkIdentifierFormats", checkIdentifierFormatsThrows(parsed),
             checkIdentifierFormats(parsed))

CheckAddressFormats ==
    RunCheck(6, "checkAddressFormats", checkAddressFormatsThrows(parsed),
             checkAddressFormats(parsed))

CheckPhoneFormats ==
    RunCheck(7, "checkPhoneFormats", checkPhoneFormatsThrows(parsed),
             checkPhoneFormats(parsed))

CheckDataConsistency ==
    RunCheck(8, "checkDataConsistency", checkDataConsistencyThrows(parsed),
             checkDataConsistency(parsed))

\* the engine's Date parser is a choice the build makes
CheckBusinessRules ==
    \E engine \in Engines :
        RunCheck(9, "checkBusinessRules", checkBusinessRulesThrows(parsed),
                 checkBusinessRules(parsed, engine))

CheckVersionCompliance ==
    RunCheck(10, "checkVersionCompliance", checkVersionComplianceThrows(parsed),
             checkVersionCompliance(parsed))

\* checks.forEach(...); the clamp; return
Aggregate ==
    /\ pc = "checks"
    /\ Len(checks) = 10
    /\ LET r == ValidReport(parsed, issues, overallScore, checks) IN
         /\ Return(r)
         /\ issues' = r.issues
         /\ overallScore' = r.overallScore
    /\ UNCHANGED <<validation, parsing, parsed, edits, checks, calls>>

Next ==
    \/ EditField
    \/ EditMessageType
    \/ RemoveSegment
    \/ RepeatSegment
    \/ ClearParsed
    \/ ValidateStructure
    \/ Parse
    \/ CheckMSHCompleteness
    \/ CheckRequiredSegments
    \/ CheckPIDCompleteness
    \/ CheckDateFormats
    \/ CheckIdentifierFormats
    \/ CheckAddressFormats
    \/ CheckPhoneFormats
    \/ CheckDataConsistency
    \/ CheckBusinessRules
    \/ CheckVersionCompliance
    \/ Aggregate

Spec == Init /\ [][Next]_vars

----------------------------------------------------------------------------
(* The analysis as a function of the parsed message                        *)

\* some check of the battery raises a fault on p
BatteryThrows(p) ==
    \/ checkMSHCompletenessThrows(p)
    \/ checkRequiredSegmentsThrows(p)
    \/ checkPIDCompletenessThrows(p)
    \/ checkDateFormatsThrows(p)
    \/ checkIdentifierFormatsThrows(p)
    \/ checkAddressFormatsThrows(p)
    \/ checkPhoneFormatsThrows(p)
    \/ checkDataConsistencyThrows(p)
    \/ checkBusinessRulesThrows(p)
    \/ checkVersionComplianceThrows(p)

\* the checks array of a message no check faults on
Battery(p, engine) ==
    << checkMSHCompleteness(p), checkRequiredSegments(p), checkPIDCompleteness(p),
       checkDateFormats(p), checkIdentifierFormats(p), checkAddressFormats(p),
       checkPhoneFormats(p), checkDataConsistency(p),
       checkBusinessRules(p, engine), checkVersionCompliance(p) >>

\* the report for a message that passed the gate and was parsed to p
Analyze(p, engine) ==
    IF BatteryThrows(p) THEN CatchReport(<<>>)
    ELSE ValidReport(p, <<>>, StartScore, Battery(p, engine))

----------------------------------------------------------------------------
(* Vocabulary of the properties                                            *)

Done == pc = "done"

\* the gate passed, the parser returned and no check raised a fault
OnValidPath ==
    Done /\ validation = "valid" /\ parsing = "returns" /\ ~BatteryThrows(parsed)

\* a fault was raised after the gate passed
FaultAfterGate ==
    Done /\ validation = "valid" /\ (parsing = "throws" \/ BatteryThrows(parsed))

Count(seq, x) == Cardinality({i \in 1..Len(seq) : seq[i] = x})

NoDuplicates(seq) == \A i, j \in 1..Len(seq) : seq[i] = seq[j] => i = j

HasSegment(p, type) == Find(p.segments, type) # Undefined

\* field key of the first segment of a type (undefined when there is none)
FieldOf(p, type, field) ==
    IF HasSegment(p, type) THEN Find(p.segments, type).parsed[field] ELSE Undefined

IsADT(p) == IsString(p.messageType) /\ Includes(p.messageType.str, "ADT")

\* the date pattern \d{8}(\d{6})?(\d{1,4})?([+-]\d{4})? said by its lengths:
\* 8 to 12 or 14 to 18 digits, then an optional signed four-digit offset
DatePattern(s) ==
    \E n \in (8..12) \cup (14..18) :
        /\ Len(s) \in {n, n + 5}
        /\ AllDigits(s, 1, n)
        /\ Len(s) = n + 5 =>
             (Char(s, n + 1) \in {"+", "-"} /\ AllDigits(s, n + 2, n + 5))

\* the value starts with eight digits that name a day of the calendar
RealDate(v) ==
    /\ IsString(v)
    /\ Len(v.str) >= 8
    /\ AllDigits(v.str, 1, 8)
    /\ NumVal(v.str, 5, 6) \in 1..12
    /\ NumVal(v.str, 7, 8) \in 1..DaysInMonth(NumVal(v.str, 1, 4), NumVal(v.str, 5, 6))

\* YYYYMMDD as a number: its order is the order of the calendar
DateKey(v) == NumVal(v.str, 1, 8)

\* both values present and the eight leading digits of later are a strictly
\* earlier date than those of earlier
EightDigitsEarlier(earlier, later) ==
    /\ Truthy(earlier) /\ Truthy(later)
    /\ IsString(earlier) /\ IsString(later)
    /\ Len(earlier.str) >= 8 /\ AllDigits(earlier.str, 1, 8)
    /\ Len(later.str) >= 8 /\ AllDigits(later.str, 1, 8)
    /\ DateKey(later) < DateKey(earlier)

\* a pair of dates a business rule compares: when both are present, both are
\* real calendar dates
Comparable(a, b) == (Truthy(a) /\ Truthy(b)) => (RealDate(a) /\ RealDate(b))

BusinessDatesComparable(p) ==
    /\ Comparable(FieldOf(p, "PV1", "field44"), FieldOf(p, "PV1", "field45"))
    /\ Comparable(FieldOf(p, "PID", "field7"), FieldOf(p, "PID", "field29"))

IssuesWith(r, field) == {i \in 1..Len(r.issues) : r.issues[i].field = field}

DischargeIssue(r) == IssuesWith(r, "PV1-44/45") # {}
DeathIssue(r) == IssuesWith(r, "PID-7/29") # {}

----------------------------------------------------------------------------
(* The state machine computes the function                                 *)

\* every report returned after the parser returned is Analyze of the message
ReportIsAnalyze ==
    (Done /\ validation = "valid" /\ parsing = "returns")
        => \E engine \in Engines : report = Analyze(parsed, engine)

----------------------------------------------------------------------------
(* C1: whatever the validator, the parser and the checks do, the returned  *)
(* overallScore is an integer between 0 and 100.                           *)
C1_ScoreInRange == Done => report.overallScore \in 0..100

\* a report of the valid path whose penalties add up to more than forty
C1_Witness == OnValidPath /\ report.overallScore < 60

(* C2: when the validator says invalid, the report has exactly the one     *)
(* Critical Formatting issue on "Message Structure", isValid false, score  *)
(* 70, no recommendations; the parser and the checks were never invoked.   *)
C2_GateShortCircuit ==
    (Done /\ validation = "invalid") =>
        /\ Len(report.issues) = 1
        /\ report.issues[1].category = "Formatting"
        /\ report.issues[1].severity = "Critical"
        /\ report.issues[1].field = "Message Structure"
        /\ report.isValid = FALSE
        /\ report.overallScore = 70
        /\ report.recommendations = <<>>
        /\ calls = <<"validateHL7Message">>
        /\ checks = <<>>

C2_Witness == Done /\ validation = "invalid" /\ Len(report.issues) = 1

(* C3: when the gate passes and the parser or a check raises a fault, the  *)
(* report has exactly the one Critical Formatting issue on "Message        *)
(* Parsing", score 0, isValid false and one recommendation; no issue of a  *)
(* check that completed before the fault is in the report.                 *)
C3_FaultReport ==
    FaultAfterGate =>
        /\ Len(report.issues) = 1
        /\ report.issues[1].category = "Formatting"
        /\ report.issues[1].severity = "Critical"
        /\ report.issues[1].field = "Message Parsing"
        /\ report.overallScore = 0
        /\ report.isValid = FALSE
        /\ Len(report.recommendations) = 1
        /\ \A i \in 1..Len(checks) : \A j \in 1..Len(checks[i].issues) :
             Count(report.issues, checks[i].issues[j]) = 0

\* a check faulted after an earlier check had completed with issues
C3_Witness ==
    /\ FaultAfterGate
    /\ Len(checks) < 10
    /\ \E i \in 1..Len(checks) : checks[i].issues # <<>>

(* C6: isValid is false exactly when the validator said invalid or a fault *)
(* was caught; a message that passes the gate and parses is reported valid *)
(* whatever the checks find, Critical issues included.                     *)
C6_IsValidOnlyGateOrFault ==
    Done =>
        (report.isValid = FALSE <=>
            \/ validation = "invalid"
            \/ validation = "throws"
            \/ FaultAfterGate)

\* a valid report that carries the Critical missing-MSH or missing-PID issue
C6_Witness ==
    /\ OnValidPath
    /\ report.isValid
    /\ \E i \in 1..Len(report.issues) :
         /\ report.issues[i].severity = "Critical"
         /\ report.issues[i].field \in {"MSH", "PID"}

(* C10: in every report issues is a list (possibly empty) and              *)
(* recommendations holds no string twice, also when issues of the report   *)
(* carry the same recommendation text.                                     *)
C10_ListsWellFormed ==
    Done =>
        /\ DOMAIN report.issues = 1..Len(report.issues)
        /\ NoDuplicates(report.recommendations)

\* a report in which two issues carry the same recommendation text
C10_Witness ==
    /\ OnValidPath
    /\ \E i, j \in 1..Len(report.issues) :
         i # j /\ report.issues[i].recommendation = report.issues[j].recommendation

----------------------------------------------------------------------------
(* C4: fully populated messages                                            *)

WellFormedDate(v) == IsString(v) /\ DatePattern(v.str)

AbsentOr(v, ok) == ~Truthy(v) \/ ok

\* the message of the claim: header complete with a 14-digit timestamp and a
\* whitelisted version, ADT with PID and PV1, patient name, identifier, birth
\* date and sex code, and every optional field absent or well-formed
FullyPopulated(p) ==
    /\ HasSegment(p, "MSH") /\ HasSegment(p, "PID") /\ HasSegment(p, "PV1")
    /\ ~BatteryThrows(p)
    /\ \A f \in {"field3", "field4", "field5", "field6", "field9", "field10", "field12"} :
         Truthy(FieldOf(p, "MSH", f)) /\ ~StrictEq(FieldOf(p, "MSH", f), "Unknown")
    /\ LET t == FieldOf(p, "MSH", "field7") IN
         IsString(t) /\ Len(t.str) = 14 /\ AllDigits(t.str, 1, 14)
    /\ ArrayIncludes(validVersions, FieldOf(p, "MSH", "field12"))
    /\ IsADT(p)
    /\ Truthy(FieldOf(p, "PID", "field5"))
    /\ Truthy(FieldOf(p, "PID", "field3"))
    /\ WellFormedDate(FieldOf(p, "PID", "field7"))
    /\ ArrayIncludes(SexCodes, FieldOf(p, "PID", "field8"))
    /\ \A d \in {<<"PID", "field29">>, <<"PV1", "field44">>, <<"PV1", "field45">>,
                 <<"EVN", "field2">>} :
         AbsentOr(FieldOf(p, d[1], d[2]), WellFormedDate(FieldOf(p, d[1], d[2])))
    /\ LET ssn == FieldOf(p, "PID", "field19") IN
         AbsentOr(ssn, IsString(ssn) /\ ssnRegexTest(ssn.str))
    /\ LET address == FieldOf(p, "PID", "field11") IN
         AbsentOr(address, IsString(address) /\ Includes(address.str, "^"))
    /\ \A f \in {"field13", "field14"} :
         LET phone == FieldOf(p, "PID", f) IN
         AbsentOr(phone, IsString(phone) /\ phoneRegexTest(phone.str))
    /\ AbsentOr(FieldOf(p, "PV1", "field2"),
                ArrayIncludes(PatientClasses, FieldOf(p, "PV1", "field2")))

\* the dates the business rules compare are real dates in calendar order
DatesInOrder(p) ==
    /\ BusinessDatesComparable(p)
    /\ ~EightDigitsEarlier(FieldOf(p, "PV1", "field44"), FieldOf(p, "PV1", "field45"))
    /\ ~EightDigitsEarlier(FieldOf(p, "PID", "field7"), FieldOf(p, "PID", "field29"))

Perfect(r) == r.overallScore = 100 /\ r.issues = <<>>

(* C4 as stated: every fully populated message scores 100 with no issue.   *)
C4_Original == (OnValidPath /\ FullyPopulated(parsed)) => Perfect(report)

(* C4, amended: a fully populated message whose compared dates (admit and  *)
(* discharge, birth and death, when both of a pair are present) are real   *)
(* calendar dates in order scores 100 with no issue; so does the sample.   *)
C4_FullyPopulatedPerfect ==
    /\ (OnValidPath /\ FullyPopulated(parsed) /\ DatesInOrder(parsed)) => Perfect(report)
    /\ (OnValidPath /\ parsed = SampleADTMessage) => Perfect(report)

\* a fully populated message with admit and discharge dates, in order
C4_Witness ==
    /\ OnValidPath
    /\ FullyPopulated(parsed)
    /\ DatesInOrder(parsed)
    /\ BothPresent(FieldOf(parsed, "PV1", "field44"), FieldOf(parsed, "PV1", "field45"))
    /\ Perfect(report)

----------------------------------------------------------------------------
(* C5: the table of rules (section 4.2), in battery order                  *)

Rule(cond, severity, penalty) ==
    IF cond THEN << [severity |-> severity, penalty |-> penalty] >> ELSE <<>>

RECURSIVE Flatten(_)
Flatten(seqs) == IF seqs = <<>> THEN <<>> ELSE seqs[1] \o Flatten(Tail(seqs))

RECURSIVE TablePenalty(_)
TablePenalty(rules) ==
    IF rules = <<>> THEN 0 ELSE rules[1].penalty + TablePenalty(Tail(rules))

\* the triggered rule instances of the table; placeholderIsAbsent says how the
\* two timestamp rows read the placeholder "Unknown"
TableRules(p, placeholderIsAbsent) ==
    LET msh == HasSegment(p, "MSH")
        pid == HasSegment(p, "PID")
        pv1 == HasSegment(p, "PV1")
        F(type, field) == FieldOf(p, type, field)
        present(v) == Truthy(v)
        stamp == F("MSH", "field7")
        stamped == present(stamp)
                     /\ ~(placeholderIsAbsent /\ StrictEq(stamp, "Unknown"))
        header(f) == Rule(msh /\ (~present(F("MSH", f)) \/ StrictEq(F("MSH", f), "Unknown")),
                          "High", 2)
        sweep(type, f) == Rule(present(F(type, f)) /\ ~DatePattern(F(type, f).str),
                               "Medium", 1)
        phone(f) == Rule(present(F("PID", f)) /\ ~phoneRegexTest(F("PID", f).str), "Low", 1)
    IN  Flatten(<<
          Rule(~msh, "Critical", 20),
          header("field3"), header("field4"), header("field5"), header("field6"),
          header("field9"), header("field10"), header("field12"),
          Rule(msh /\ stamped /\ ~dateTimeRegexTest(stamp.str), "Medium", 1),
          Rule(msh /\ ~stamped, "High", 2),
          Rule(IsADT(p) /\ ~pid, "Critical", 15),
          Rule(IsADT(p) /\ ~pv1, "High", 10),
          Rule(pid /\ ~present(F("PID", "field5")), "High", 5),
          Rule(pid /\ ~present(F("PID", "field3")), "High", 5),
          Rule(pid /\ ~present(F("PID", "field7")), "Medium", 3),
          Rule(pid /\ present(F("PID", "field7")) /\ ~DatePattern(F("PID", "field7").str),
               "Medium", 2),
          Rule(pid /\ ~present(F("PID", "field8")), "Low", 1),
          Rule(pid /\ present(F("PID", "field8"))
                 /\ ~ArrayIncludes({"M", "F", "O", "U", "A"}, F("PID", "field8")),
               "Medium", 2),
          sweep("MSH", "field7"), sweep("PID", "field7"), sweep("PID", "field29"),
          sweep("PV1", "field44"), sweep("PV1", "field45"), sweep("EVN", "field2"),
          Rule(present(F("PID", "field19")) /\ ~ssnRegexTest(F("PID", "field19").str),
               "Medium", 2),
          Rule(present(F("PID", "field11")) /\ IsString(F("PID", "field11"))
                 /\ ~Includes(F("PID", "field11").str, "^"),
               "Low", 1),
          phone("field13"), phone("field14"),
          Rule(pid /\ pv1 /\ present(F("PV1", "field2"))
                 /\ ~ArrayIncludes({"I", "O", "E", "P", "R", "B", "N", "U"}, F("PV1", "field2")),
               "Medium", 2),
          Rule(EightDigitsEarlier(F("PV1", "field44"), F("PV1", "field45")), "High", 5),
          Rule(EightDigitsEarlier(F("PID", "field7"), F("PID", "field29")), "High", 5),
          Rule(present(F("MSH", "field12"))
                 /\ ~ArrayIncludes(validVersions, F("MSH", "field12")),
               "Medium", 2) >>)

\* the report's score is the clamped table sum and its issues are the
\* triggered rule instances, one each, with the table's severities
MatchesTable(r, rules) ==
    /\ r.overallScore = Max(0, Min(100, 100 - TablePenalty(rules)))
    /\ Len(r.issues) = Len(rules)
    /\ \A s \in {"Critical", "High", "Medium", "Low", "Info"} :
         Cardinality({i \in 1..Len(r.issues) : r.issues[i].severity = s})
           = Cardinality({i \in 1..Len(rules) : rules[i].severity = s})

(* C5 as stated: on the valid path the score is clamp(100 - P), P the sum  *)
(* of the table penalties of the triggered rules, one issue per instance.  *)
C5_Original == OnValidPath => MatchesTable(report, TableRules(parsed, FALSE))

(* C5, amended: the same, with the table's timestamp rows read as "absent  *)
(* or the placeholder Unknown" (High, 2) and "present, not the placeholder,*)
(* and failing the pattern" (Medium, 1), for messages whose dates compared *)
(* by a business rule are real calendar dates.                             *)
C5_TableScore ==
    (OnValidPath /\ BusinessDatesComparable(parsed))
        => MatchesTable(report, TableRules(parsed, TRUE))

\* a placeholder timestamp among at least eight triggered rules
C5_Witness ==
    /\ OnValidPath
    /\ BusinessDatesComparable(parsed)
    /\ StrictEq(FieldOf(parsed, "MSH", "field7"), "Unknown")
    /\ Len(report.issues) >= 8

----------------------------------------------------------------------------
(* C7: removing the PID segment                                            *)

RemoveSegments(p, type) ==
    LET rest == SelectSeq(p.segments, LAMBDA s : s.segmentType # type) IN
    [p EXCEPT !.segments = rest, !.totalSegments = Len(rest)]

OnPIDField(issue) == Len(issue.field) >= 4 /\ SubSeq(issue.field, 1, 4) = "PID-"

IsMissingPID(issue) ==
    issue.issue = "Missing PID segment" /\ issue.severity = "Critical" /\ issue.field = "PID"

IsPatientClass(issue) == issue.issue = "Invalid Patient Class" /\ issue.field = "PV1-2"

\* without is with, minus the issues dropped, plus the one missing-PID issue
PIDRemoved(with, without, Dropped(_)) ==
    \E k \in 1..Len(without.issues) :
        /\ IsMissingPID(without.issues[k])
        /\ RemoveAt(without.issues, k) = SelectSeq(with.issues, LAMBDA x : ~Dropped(x))

PenaltyGrowsBy15(p) ==
    checkRequiredSegments(RemoveSegments(p, "PID")).scorePenalty
        = checkRequiredSegments(p).scorePenalty + 15

ADTWithPID == OnValidPath /\ IsADT(parsed) /\ HasSegment(parsed, "PID")

(* C7 as stated: removing the PID segment of an ADT message adds exactly   *)
(* the Critical missing-PID issue (penalty 15), removes every issue on a   *)
(* PID field and leaves every other issue unchanged.                       *)
C7_Original ==
    ADTWithPID =>
        \A engine \in Engines :
            /\ PIDRemoved(Analyze(parsed, engine),
                          Analyze(RemoveSegments(parsed, "PID"), engine), OnPIDField)
            /\ PenaltyGrowsBy15(parsed)

(* C7, amended: for an ADT message with a PID segment that is analysed     *)
(* without a fault, removing the PID segment adds exactly the Critical     *)
(* missing-PID issue (penalty 15), removes every issue on a PID field and  *)
(* the PV1-2 "Invalid Patient Class" issue, and leaves every other issue   *)
(* unchanged.                                                              *)
C7_RemovePID ==
    ADTWithPID =>
        \A engine \in Engines :
            LET DroppedIssue(x) == OnPIDField(x) \/ IsPatientClass(x) IN
            /\ PIDRemoved(Analyze(parsed, engine),
                          Analyze(RemoveSegments(parsed, "PID"), engine), DroppedIssue)
            /\ PenaltyGrowsBy15(parsed)

\* an ADT message with an issue on a PID field and the patient-class issue
C7_Witness ==
    /\ ADTWithPID
    /\ \E i, j \in 1..Len(report.issues) :
         /\ OnPIDField(report.issues[i])
         /\ IsPatientClass(report.issues[j])

----------------------------------------------------------------------------
(* C8: date order                                                          *)

FirstIndex(p, type) ==
    CHOOSE i \in 1..Len(p.segments) :
        /\ p.segments[i].segmentType = type
        /\ \A j \in 1..(i - 1) : p.segments[j].segmentType # type

\* the message with two fields of its first segment of a type exchanged
Swapped(p, type, f, g) ==
    LET i == FirstIndex(p, type) IN
    [p EXCEPT !.segments[i].parsed[f] = p.segments[i].parsed[g],
              !.segments[i].parsed[g] = p.segments[i].parsed[f]]

Admit == FieldOf(parsed, "PV1", "field44")
Discharge == FieldOf(parsed, "PV1", "field45")
Birth == FieldOf(parsed, "PID", "field7")
Death == FieldOf(parsed, "PID", "field29")

(* C8 as stated: with both dates present the issue is produced exactly     *)
(* when the first eight digits of the later date (discharge, death) are a  *)
(* strictly earlier date than those of the earlier one (admit, birth).     *)
C8_Original ==
    OnValidPath =>
        /\ BothPresent(Admit, Discharge) =>
             (DischargeIssue(report) <=> EightDigitsEarlier(Admit, Discharge))
        /\ BothPresent(Birth, Death) =>
             (DeathIssue(report) <=> EightDigitsEarlier(Birth, Death))

\* the rule for one pair of real calendar dates
DateRule(earlier, later, field, type, f, g) ==
    (BothPresent(earlier, later) /\ RealDate(earlier) /\ RealDate(later)) =>
        /\ IssuesWith(report, field) # {} <=> DateKey(later) < DateKey(earlier)
        /\ DateKey(later) = DateKey(earlier) => IssuesWith(report, field) = {}
        /\ Cardinality(IssuesWith(report, field)) <= 1
        /\ \A i \in IssuesWith(report, field) : report.issues[i].severity = "High"
        /\ IssuesWith(report, field) # {} =>
             \A engine \in Engines :
                 IssuesWith(Analyze(Swapped(parsed, type, f, g), engine), field) = {}

(* C8, amended: when PV1-44 and PV1-45 are both present and each begins    *)
(* with eight digits naming a real calendar date, the High issue (penalty  *)
(* 5) is produced exactly when the discharge date is strictly earlier than *)
(* the admit date; swapping the values removes it; the same day never      *)
(* produces it, whatever the time of day.  Likewise PID-29 against PID-7.  *)
C8_DateOrder ==
    OnValidPath =>
        /\ DateRule(Admit, Discharge, "PV1-44/45", "PV1", "field44", "field45")
        /\ DateRule(Birth, Death, "PID-7/29", "PID", "field7", "field29")
        /\ checks[9].scorePenalty = 5 * Len(checks[9].issues)

\* discharge before admit, reported
C8_Witness ==
    /\ OnValidPath
    /\ RealDate(Admit) /\ RealDate(Discharge)
    /\ DischargeIssue(report)

----------------------------------------------------------------------------
(* C9: a PID-7 that is present and fails the date pattern (1980/01/15) is  *)
(* reported as a Medium Formatting issue on PID-7; a PID-7 that matches    *)
(* the pattern (19800115) yields no issue on PID-7.                        *)
C9_BirthDateFormat ==
    (OnValidPath /\ HasSegment(parsed, "PID")) =>
        LET reported == \E i \in IssuesWith(report, "PID-7") :
                            /\ report.issues[i].severity = "Medium"
                            /\ report.issues[i].category = "Formatting"
        IN  /\ (Truthy(Birth) /\ ~DatePattern(Birth.str)) => reported
            /\ (Truthy(Birth) /\ DatePattern(Birth.str)) => IssuesWith(report, "PID-7") = {}
            /\ Birth = Str("1980/01/15") => reported
            /\ Birth = Str("19800115") => IssuesWith(report, "PID-7") = {}

C9_Witness ==
    /\ OnValidPath
    /\ Birth = Str("1980/01/15")
    /\ IssuesWith(report, "PID-7") # {}

----------------------------------------------------------------------------
(* C11 as stated: on the valid path the report's recommendations contain   *)
(* the recommendation string of every reported issue, as in the documented *)
(* example output (the Missing Date of Birth issue and its recommendation). *)
C11_RecommendationsOfIssues ==
    OnValidPath =>
        \A i \in 1..Len(report.issues) :
            \E j \in 1..Len(report.recommendations) :
                report.recommendations[j] = report.issues[i].recommendation

----------------------------------------------------------------------------
(* C12: the documented range of score reduction of each severity           *)

SeverityRange(severity) ==
    CASE severity = "Critical" -> [lo |-> 15, hi |-> 30]
      [] severity = "High"     -> [lo |-> 5, hi |-> 10]
      [] severity = "Medium"   -> [lo |-> 2, hi |-> 3]
      [] severity = "Low"      -> [lo |-> 1, hi |-> 1]
      [] severity = "Info"     -> [lo |-> 0, hi |-> 0]

RECURSIVE LeastReduction(_)
LeastReduction(iss) ==
    IF iss = <<>> THEN 0
    ELSE SeverityRange(iss[1].severity).lo + LeastReduction(Tail(iss))

RECURSIVE MostReduction(_)
MostReduction(iss) ==
    IF iss = <<>> THEN 0
    ELSE SeverityRange(iss[1].severity).hi + MostReduction(Tail(iss))

(* C12 as stated: every issue reduces the score by an amount inside the    *)
(* range of its severity (Critical 15..30, High 5..10, Medium 2..3, Low 1, *)
(* Info 0); so the penalty of every check lies between the sums of the     *)
(* least and of the most reductions of the issues it reports.              *)
C12_PenaltyInSeverityRange ==
    \A n \in 1..Len(checks) :
        /\ checks[n].scorePenalty >= LeastReduction(checks[n].issues)
        /\ checks[n].scorePenalty <= MostReduction(checks[n].issues)

----------------------------------------------------------------------------
(* C13: the order of the issues                                            *)

BatteryOrder ==
    << "checkMSHCompleteness", "checkRequiredSegments", "checkPIDCompleteness",
       "checkDateFormats", "checkIdentifierFormats", "checkAddressFormats",
       "checkPhoneFormats", "checkDataConsistency", "checkBusinessRules",
       "checkVersionCompliance" >>

(* C13: on the valid path the issues of the report are the issues of the   *)
(* ten checks, concatenated in the battery order in which the checks were  *)
(* called, each check's issues in the order the check produced them; they  *)
(* are not sorted by category or severity.                                 *)
C13_IssuesInBatteryOrder ==
    OnValidPath =>
        /\ calls = <<"validateHL7Message", "parseHL7Message">> \o BatteryOrder
        /\ checks[1] = checkMSHCompleteness(parsed)
        /\ checks[2] = checkRequiredSegments(parsed)
        /\ checks[3] = checkPIDCompleteness(parsed)
        /\ checks[4] = checkDateFormats(parsed)
        /\ checks[5] = checkIdentifierFormats(parsed)
        /\ checks[6] = checkAddressFormats(parsed)
        /\ checks[7] = checkPhoneFormats(parsed)
        /\ checks[8] = checkDataConsistency(parsed)
        /\ \E engine \in Engines : checks[9] = checkBusinessRules(parsed, engine)
        /\ checks[10] = checkVersionCompliance(parsed)
        /\ report.issues =
             checks[1].issues \o checks[2].issues \o checks[3].issues
               \o checks[4].issues \o checks[5].issues \o checks[6].issues
               \o checks[7].issues \o checks[8].issues \o checks[9].issues
               \o checks[10].issues

\* a report whose issues are sorted neither by severity nor by category
C13_Witness ==
    /\ OnValidPath
    /\ \E i, j \in 1..Len(report.issues) :
         /\ i < j
         /\ report.issues[i].severity = "Low"
         /\ report.issues[j].severity \in {"Medium", "High", "Critical"}
    /\ \E i, j, k \in 1..Len(report.issues) :
         /\ i < j /\ j < k
         /\ report.issues[i].category = report.issues[k].category
         /\ report.issues[j].category # report.issues[i].category

----------------------------------------------------------------------------
(* C14: segments beyond the first of their type                            *)

\* the message without the segments that follow a segment of their own type
FirstOnly(p) ==
    LET keep == {i \in 1..Len(p.segments) :
                    \A j \in 1..(i - 1) :
                        p.segments[j].segmentType # p.segments[i].segmentType}
        F[i \in 0..Len(p.segments)] ==
            IF i = 0 THEN <<>>
            ELSE IF i \in keep THEN Append(F[i - 1], p.segments[i]) ELSE F[i - 1]
    IN  [p EXCEPT !.segments = F[Len(p.segments)],
                  !.totalSegments = Cardinality(keep)]

HasRepeat(p) == FirstOnly(p) # p

SameFindings(a, b) == a.issues = b.issues /\ a.overallScore = b.overallScore

(* C14: a message with further segments of types it already has, appended  *)
(* or inserted after the first of their type, whatever their field values, *)
(* gets the issues and the overallScore of the message without them.       *)
C14_RepeatsInvisible ==
    (Done /\ validation = "valid" /\ parsing = "returns" /\ HasRepeat(parsed)) =>
        /\ \E engine \in Engines :
             SameFindings(report, Analyze(FirstOnly(parsed), engine))
        /\ \A engine \in Engines :
             SameFindings(Analyze(parsed, engine), Analyze(FirstOnly(parsed), engine))

\* a report with issues for a message with a second, different PID segment
C14_Witness ==
    /\ OnValidPath
    /\ HasRepeat(parsed)
    /\ report.issues # <<>>
    /\ \E i, j \in 1..Len(parsed.segments) :
         /\ i < j
         /\ parsed.segments[i].segmentType = "PID"
         /\ parsed.segments[j].segmentType = "PID"
         /\ parsed.segments[i] # parsed.segments[j]

----------------------------------------------------------------------------
(* The battery run in any order                                            *)

\* the slot of a check that has not run
NotRun == [pending |-> TRUE]

\* a check changes nothing in the message it is given
AfterCheckClearingType(p, n) ==
    IF n = 2 THEN [p EXCEPT !.messageType = Undefined] ELSE p

\* the parsed message after check n has run on it: no check assigns to it
AfterCheck(p, n) == p

\* the messages one field value away from m
OneFieldAway(m) ==
    UNION { { [m EXCEPT !.segments[i].parsed[f] = v] :
                v \in EditValues(m.segments[i].segmentType, f) } :
            i \in 1..Len(m.segments), f \in FieldKeys }

\* the messages of the examples and those one field value away from them
AnyOrderMessages == BaseMessages \cup UNION { OneFieldAway(m) : m \in BaseMessages }

ThrowsOf(n, p) ==
    CASE n = 1 -> checkMSHCompletenessThrows(p)
      [] n = 2 -> checkRequiredSegmentsThrows(p)
      [] n = 3 -> checkPIDCompletenessThrows(p)
      [] n = 4 -> checkDateFormatsThrows(p)
      [] n = 5 -> checkIdentifierFormatsThrows(p)
      [] n = 6 -> checkAddressFormatsThrows(p)
      [] n = 7 -> checkPhoneFormatsThrows(p)
      [] n = 8 -> checkDataConsistencyThrows(p)
      [] n = 9 -> checkBusinessRulesThrows(p)
      [] n = 10 -> checkVersionComplianceThrows(p)

ResultOf(n, p, engine) ==
    CASE n = 1 -> checkMSHCompleteness(p)
      [] n = 2 -> checkRequiredSegments(p)
      [] n = 3 -> checkPIDCompleteness(p)
      [] n = 4 -> checkDateFormats(p)
      [] n = 5 -> checkIdentifierFormats(p)
      [] n = 6 -> checkAddressFormats(p)
      [] n = 7 -> checkPhoneFormats(p)
      [] n = 8 -> checkDataConsistency(p)
      [] n = 9 -> checkBusinessRules(p, engine)
      [] n = 10 -> checkVersionCompliance(p)

InitAnyOrder ==
    /\ pc = "input"
    /\ validation \in ValidationOutcomes
    /\ parsing \in ParsingOutcomes
    /\ parsed \in AnyOrderMessages
    /\ edits = 0
    /\ checks = [n \in 1..10 |-> NotRun]
    /\ calls = <<>>
    /\ issues = <<>>
    /\ overallScore = StartScore
    /\ report = NoReport

\* some check that has not run yet runs: its result goes to its own slot
RunCheckAnyOrder ==
    /\ pc = "checks"
    /\ \E n \in 1..10, engine \in Engines :
         /\ n # 9 => engine = "strict"
         /\ checks[n] = NotRun
         /\ IF ThrowsOf(n, parsed)
            THEN /\ Return(CatchReport(issues))
                 /\ UNCHANGED <<checks, parsed>>
            ELSE /\ checks' = [checks EXCEPT ![n] = ResultOf(n, parsed, engine)]
                 /\ parsed' = AfterCheck(parsed, n)
                 /\ UNCHANGED <<pc, report>>
    /\ UNCHANGED <<validation, parsing, edits, calls, issues, overallScore>>

AggregateAnyOrder ==
    /\ \A n \in 1..10 : checks[n] # NotRun
    /\ Aggregate

NextAnyOrder ==
    \/ ValidateStructure
    \/ Parse
    \/ RunCheckAnyOrder
    \/ AggregateAnyOrder

SpecAnyOrder == InitAnyOrder /\ [][NextAnyOrder]_vars

----------------------------------------------------------------------------
(* C15: order independence                                                 *)

SameBag(a, b) ==
    /\ Len(a) = Len(b)
    /\ \A i \in 1..Len(a) : Count(a, a[i]) = Count(b, a[i])

(* C15: in whatever order the ten checks run, none changes the parsed      *)
(* message, each yields the result it yields in the battery order, and the *)
(* report has the overallScore and the multiset of issues of the           *)
(* sequential analysis.                                                    *)
\* the results so far and the report are those of the battery order
AsInBatteryOrder ==
    /\ \A n \in 1..10 :
         checks[n] # NotRun =>
             \E engine \in Engines : checks[n] = ResultOf(n, parsed, engine)
    /\ (Done /\ validation = "valid" /\ parsing = "returns") =>
         \E engine \in Engines :
             /\ report.overallScore = Analyze(parsed, engine).overallScore
             /\ SameBag(report.issues, Analyze(parsed, engine).issues)

\* the message is still one the analysis was given: an example message with
\* at most one field value changed
AsGiven(p) ==
    \E m \in BaseMessages :
        /\ p.messageType = m.messageType
        /\ p.totalSegments = m.totalSegments
        /\ Len(p.segments) = Len(m.segments)
        /\ \A i \in 1..Len(m.segments) :
             p.segments[i].segmentType = m.segments[i].segmentType
        /\ Cardinality({x \in (1..Len(m.segments)) \X FieldKeys :
                          p.segments[x[1]].parsed[x[2]] # m.segments[x[1]].parsed[x[2]]}) <= 1

----------------------------------------------------------------------------
(* C16: field locators                                                     *)

UpperCase ==
    {"A", "B", "C", "D", "E", "F", "G", "H", "I", "J", "K", "L", "M",
     "N", "O", "P", "Q", "R", "S", "T", "U", "V", "W", "X", "Y", "Z"}

\* a segment tag: a capital letter and two capital letters or digits
SegmentTag(s) ==
    /\ Len(s) = 3
    /\ Char(s, 1) \in UpperCase
    /\ \A i \in 2..3 : Char(s, i) \in UpperCase \cup Digits

Number(s) == Len(s) >= 1 /\ AllDigits(s, 1, Len(s))

\* <SegmentTag>-<FieldNumber>
TagNumber(s) ==
    /\ Len(s) >= 5
    /\ SegmentTag(SubSeq(s, 1, 3))
    /\ Char(s, 4) = "-"
    /\ Number(SubSeq(s, 5, Len(s)))

\* <SegmentTag>-<FieldNumber>/<FieldNumber>
TagNumberPair(s) ==
    \E k \in 6..(Len(s) - 1) :
        /\ Char(s, k) = "/"
        /\ TagNumber(SubSeq(s, 1, k - 1))
        /\ Number(SubSeq(s, k + 1, Len(s)))

(* C16 as stated: every issue of every report is located by                *)
(* <SegmentTag>-<FieldNumber> or by a segment name alone.                  *)
C16_Original ==
    Done =>
        \A i \in 1..Len(report.issues) :
            TagNumber(report.issues[i].field) \/ SegmentTag(report.issues[i].field)

(* C16, amended: every issue of every report is located by                 *)
(* <SegmentTag>-<FieldNumber>, by a segment name alone, by                 *)
(* <SegmentTag>-<FieldNumber>/<FieldNumber> for the two date-order rules   *)
(* (PV1-44/45, PID-7/29), by "Message Structure" in the report of a        *)
(* message the gate rejected, or by "Message Parsing" in the report of a   *)
(* caught fault.                                                           *)
C16_FieldLocators ==
    Done =>
        \A i \in 1..Len(report.issues) :
            LET issue == report.issues[i] IN
            \/ TagNumber(issue.field)
            \/ SegmentTag(issue.field)
            \/ /\ TagNumberPair(issue.field)
               /\ issue.field \in {"PV1-44/45", "PID-7/29"}
               /\ issue.category = "Business Rules"
            \/ issue.field = "Message Structure" /\ validation = "invalid"
            \/ /\ issue.field = "Message Parsing"
               /\ validation = "throws" \/ FaultAfterGate

\* a report with the three kinds of locator of the valid path
C16_Witness ==
    /\ OnValidPath
    /\ \E i, j, k \in 1..Len(report.issues) :
         /\ TagNumber(report.issues[i].field)
         /\ SegmentTag(report.issues[j].field)
         /\ TagNumberPair(report.issues[k].field)

----------------------------------------------------------------------------
(* C17: required segments                                                  *)

\* the result of the required-segments check, once it has returned
RequiredSegmentsRan == pc \in {"checks", "done"} /\ Len(checks) >= 2

SeverityCount(iss, severity, field) ==
    Cardinality({i \in 1..Len(iss) : iss[i].severity = severity /\ iss[i].field = field})

(* C17: for a message whose type contains ADT the required-segments check  *)
(* yields one Critical issue (penalty 15) exactly when PID is absent and   *)
(* one High issue (penalty 10) exactly when PV1 is absent, 25 when both    *)
(* are; for a type that is absent or does not contain ADT it yields no     *)
(* issue and no penalty whichever segments are missing.                    *)
C17_RequiredSegments ==
    RequiredSegmentsRan =>
        LET r == checks[2]
            noPID == ~HasSegment(parsed, "PID")
            noPV1 == ~HasSegment(parsed, "PV1")
        IN  IF IsADT(parsed)
            THEN /\ SeverityCount(r.issues, "Critical", "PID") = (IF noPID THEN 1 ELSE 0)
                 /\ SeverityCount(r.issues, "High", "PV1") = (IF noPV1 THEN 1 ELSE 0)
                 /\ Len(r.issues) = (IF noPID THEN 1 ELSE 0) + (IF noPV1 THEN 1 ELSE 0)
                 /\ r.scorePenalty = (IF noPID THEN 15 ELSE 0) + (IF noPV1 THEN 10 ELSE 0)
                 /\ (noPID /\ noPV1) => r.scorePenalty = 25
            ELSE r.issues = <<>> /\ r.scorePenalty = 0

\* an ADT message with neither PID nor PV1
C17_Witness ==
    /\ RequiredSegmentsRan
    /\ IsADT(parsed)
    /\ ~HasSegment(parsed, "PID") /\ ~HasSegment(parsed, "PV1")
    /\ checks[2].scorePenalty = 25

----------------------------------------------------------------------------
(* C18: header completeness                                                *)

HeaderRan == pc \in {"checks", "done"} /\ Len(checks) >= 1

RequiredHeaderFields ==
    {"field3", "field4", "field5", "field6", "field9", "field10", "field12"}

\* absent, empty or the placeholder
Unfilled(v) == ~Truthy(v) \/ StrictEq(v, "") \/ StrictEq(v, "Unknown")

On(iss, field, severity) ==
    Cardinality({i \in 1..Len(iss) : iss[i].field = field /\ iss[i].severity = severity})

----------------------------------------------------------------------------
(* C19: consistency                                                        *)

ConsistencyRan == pc \in {"checks", "done"} /\ Len(checks) >= 8

\* PID and PV1 present, PV1-2 present and not a patient class
WrongPatientClass(p) ==
    /\ HasSegment(p, "PID")
    /\ HasSegment(p, "PV1")
    /\ Truthy(FieldOf(p, "PV1", "field2"))
    /\ ~\E c \in {"I", "O", "E", "P", "R", "B", "N", "U"} :
          FieldOf(p, "PV1", "field2") = Str(c)

(* C19: the consistency check yields the Medium "Invalid Patient Class"    *)
(* issue (penalty 2), once, exactly when PID and PV1 are both present and  *)
(* PV1-2 is present and not one of I, O, E, P, R, B, N, U; otherwise it    *)
(* yields nothing, in particular for an invalid PV1-2 without a PID.       *)
C19_PatientClass ==
    ConsistencyRan =>
        LET r == checks[8] IN
        IF WrongPatientClass(parsed)
        THEN /\ Len(r.issues) = 1
             /\ r.issues[1].severity = "Medium"
             /\ r.issues[1].issue = "Invalid Patient Class"
             /\ r.issues[1].field = "PV1-2"
             /\ r.scorePenalty = 2
        ELSE r.issues = <<>> /\ r.scorePenalty = 0

\* an invalid PV1-2 in a message without a PID segment
C19_Witness ==
    /\ ConsistencyRan
    /\ ~HasSegment(parsed, "PID")
    /\ FieldOf(parsed, "PV1", "field2") = Str("X")
    /\ checks[8].issues = <<>>

----------------------------------------------------------------------------
(* The analysis over a grid of messages                                    *)

\* an MSH segment: required fields filled or empty, a timestamp, a version
GridMSH(filled, stamp, version) ==
    LET v(s) == IF filled THEN Str(s) ELSE Str("") IN
    Segment("MSH",
      [field2 |-> Str("^~\\&"), field3 |-> v("SendingApp"),
       field4 |-> v("SendingFacility"), field5 |-> v("ReceivingApp"),
       field6 |-> v("ReceivingFacility"), field7 |-> stamp,
       field8 |-> Str(""), field9 |-> v("ADT^A01^ADT_A01"),
       field10 |-> v("12345"), field11 |-> Str("P"), field12 |-> version])

\* a PID segment: name and identifier filled or empty, a birth date, a sex
\* code, a death date, and SSN, address and phones well-formed or not
GridPID(filled, birth, sex, death, formatted) ==
    Segment("PID",
      [field2 |-> Str(""),
       field3 |-> IF filled THEN Str("MRN123456789^^^HOSPITAL^MR") ELSE Str(""),
       field4 |-> Str(""),
       field5 |-> IF filled THEN Str("DOE^JOHN^MIDDLE^JR^^L") ELSE Str(""),
       field6 |-> Str(""), field7 |-> birth, field8 |-> sex,
       field9 |-> Str(""), field10 |-> Str(""),
       field11 |-> IF formatted THEN Str("123 MAIN ST^^CITY^ST^12345^USA")
                   ELSE Str("123 MAIN ST"),
       field12 |-> Str(""),
       field13 |-> IF formatted THEN Str("555-123-4567") ELSE Str("CALL"),
       field14 |-> IF formatted THEN Str("") ELSE Str("CALL"),
       field19 |-> IF formatted THEN Str("123-45-6789") ELSE Str("SSN123456789"),
       field29 |-> death])

\* a PV1 segment: a patient class, an admit and a discharge date
GridPV1(class, admit, discharge) ==
    Segment("PV1",
      [field2 |-> class, field3 |-> Str("ICU^101^A"), field44 |-> admit,
       field45 |-> discharge])

GridEVN(recorded) == Segment("EVN", [field2 |-> recorded])

MSHOptions ==
    {Undefined} \cup
    { GridMSH(filled, stamp, version) :
        filled \in BOOLEAN,
        stamp \in {Str("20240101120000"), Str("Unknown"), Str("2024-01-01")},
        version \in {Str("2.5"), Str("Unknown"), Str("3.0")} }

PIDOptions ==
    {Undefined} \cup
    { GridPID(filled, birth, sex, death, formatted) :
        filled \in BOOLEAN,
        birth \in {Str("19800115"), Str(""), Str("1980")},
        sex \in {Str("M"), Str("X")},
        death \in {Undefined, Str("1970")},
        formatted \in BOOLEAN }

PV1Options ==
    {Undefined} \cup
    { GridPV1(class, dates[1], dates[2]) :
        class \in {Str("I"), Str("X")},
        dates \in { <<Undefined, Undefined>>, <<Str("20240110"), Str("20240105")>>,
                    <<Str("2024"), Str("2023")>> } }

EVNOptions == {Undefined, GridEVN(Str("2024-01-01"))}

\* parsed messages made of the segments chosen, in the order MSH EVN PID PV1
GridMessages ==
    { Message(type, SelectSeq(<<msh, evn, pid, pv1>>, LAMBDA s : s # Undefined)) :
        type \in {Str("ADT^A01"), Str("ORU^R01")},
        msh \in MSHOptions, evn \in EVNOptions, pid \in PIDOptions, pv1 \in PV1Options }

InitGrid ==
    /\ pc = "input"
    /\ validation = "valid"
    /\ parsing = "returns"
    /\ parsed \in GridMessages
    /\ edits = 0
    /\ checks = <<>>
    /\ calls = <<>>
    /\ issues = <<>>
    /\ overallScore = StartScore
    /\ report = NoReport

NextGrid ==
    \/ ValidateStructure
    \/ Parse
    \/ CheckMSHCompleteness
    \/ CheckRequiredSegments
    \/ CheckPIDCompleteness
    \/ CheckDateFormats
    \/ CheckIdentifierFormats
    \/ CheckAddressFormats
    \/ CheckPhoneFormats
    \/ CheckDataConsistency
    \/ CheckBusinessRules
    \/ CheckVersionCompliance
    \/ Aggregate

SpecGrid == InitGrid /\ [][NextGrid]_vars

----------------------------------------------------------------------------
(* C20: the range of the score on the valid path                           *)

TotalPenalty ==
    checks[1].scorePenalty + checks[2].scorePenalty + checks[3].scorePenalty
      + checks[4].scorePenalty + checks[5].scorePenalty + checks[6].scorePenalty
      + checks[7].scorePenalty + checks[8].scorePenalty + checks[9].scorePenalty
      + checks[10].scorePenalty

(* C20: on the valid path the penalties of the ten checks add up to at     *)
(* most 57, so the overallScore is at least 43 and is 100 minus the sum:   *)
(* the clamp changes nothing; and the score is 100 exactly when the report *)
(* has no issue.                                                           *)
C20_ScoreIsHundredMinusPenalty ==
    OnValidPath =>
        /\ TotalPenalty <= 57
        /\ report.overallScore >= 43
        /\ report.overallScore = 100 - TotalPenalty
        /\ report.overallScore = 100 <=> report.issues = <<>>

\* the largest sum: no header, PID with everything wrong, no PV1, a bad EVN-2
C20_Witness ==
    /\ OnValidPath
    /\ TotalPenalty = 57
    /\ report.overallScore = 43

----------------------------------------------------------------------------
(* C21: a malformed date judged by two checks                              *)

\* the message with a field of its first segment of a type set to a value
WithField(p, type, field, v) ==
    [p EXCEPT !.segments[FirstIndex(p, type)].parsed[field] = v]

\* what the malformed value adds to the penalty of a check, measured against
\* the message with the field well-formed
Added(result, Check(_), repaired) == result.scorePenalty - Check(repaired).scorePenalty

Stamp == FieldOf(parsed, "MSH", "field7")

====
